---- MODULE Spec2Model ----
(***************************************************************************)
(* Model of the Seamless accessibility pipeline (src/network):             *)
(*   network_gen.py         points -> Delaunay triangulation -> graph file *)
(*   analysis.py/network.py graph -> Louvain communities -> cluster records*)
(*   clean_cluster_data.py  cluster records -> filter -> scores -> z-score *)
(*                          normalisation into [-1, 1]                     *)
(* Each script is a sequence of steps; `pc` is the position in the script. *)
(* The scripts exchange files, so each has its own specification whose     *)
(* Init draws the content of the files the script reads:                   *)
(*   SpecGen        network_gen.py on a facilities file                    *)
(*   SpecCommunity  g.community_multilevel() run again on one graph file   *)
(*   SpecAnalysis   analysis.py / network.py on a graph of network_gen.py  *)
(*   SpecMetrics    the cluster record of any member list of such a graph  *)
(*   SpecClean      clean_cluster_data.py on cluster records and a graph   *)
(*                                                                         *)
(* Numbers.  Coordinates are integer degrees.  A quotient is a pair        *)
(* <<num, den>> with den > 0; the pair with den = 0 is NaN (what igraph    *)
(* returns for 0/0).  great_circle() is abstracted by the planar distance  *)
(* at MetresPerDegree metres per degree, rounded down to whole metres.     *)
(* Scores rounded to 4 decimals are integers in units of 1/ScoreScale.     *)
(***************************************************************************)
EXTENDS Integers, Sequences, FiniteSets, TLC

\* ---------------------------------------------------------------- bounds
\* Largest number of points in the input file of network_gen.py.
MaxN == 4
\* Largest number of vertices / triangles of a graph file given to the
\* community detector on its own (SpecCommunity).
MaxV == 5
MaxTri == 3
\* How many times the community detector is run on the same graph.
MaxRuns == 2
\* Largest number of cluster records in the file read by clean_cluster_data.py.
MaxClusters == 3

\* ------------------------------------------------------- program constants
\* geopy's mean earth radius 6371.009 km times pi/180, in metres per degree.
MetresPerDegree == 111195
\* clean_cluster_data.py keeps a cluster when radius_meters > 10.
MinRadius == 10
\* round(x, 4): scores are kept in units of 1/10000.
ScoreScale == 10000
\* round(x, 6): coordinates of centroids are kept in millionths of a degree.
Micro == 1000000

\* The twelve categories of calculate_cluster_metrics, in source order.
feature_types_list ==
  << "tactile_paving", "disabled_parking", "accessible_toilets", "ramps",
     "elevators", "accessible_stops", "audio_traffic_signals",
     "emergency_phones", "accessible_entrances", "hearing_loops",
     "sign_language_services", "accessible_hospitals" >>

KnownFeatures == { feature_types_list[k] : k \in 1..Len(feature_types_list) }

\* ------------------------------------------------------------ input sets
\* Keys of the facilities file: one known category and one that is not.
FeatureInputs == << "ramps", "benches" >>
\* (lat, lon) of the input points: the unit square, a latitude above 90 and a
\* longitude above 180.
Sites == { <<0, 0>>, <<0, 1>>, <<1, 0>>, <<1, 1>>, <<91, 0>>, <<0, 181>> }

\* ------------------------------------------------------------- utilities
Range(s) == { s[k] : k \in 1..Len(s) }

SeqsUpTo(S, n) == UNION { [1..k -> S] : k \in 0..n }

RECURSIVE SumSeq(_)
SumSeq(s) == IF s = << >> THEN 0 ELSE s[1] + SumSeq(Tail(s))

RECURSIVE SumSet(_, _)
\* Sum of f(x) for x in S, f given as a function.
SumSet(f, S) ==
  IF S = {} THEN 0
  ELSE LET x == CHOOSE y \in S : TRUE IN f[x] + SumSet(f, S \ {x})

SetMax(S) == CHOOSE x \in S : \A y \in S : y <= x
SetMin(S) == CHOOSE x \in S : \A y \in S : x <= y

\* Elements of a set of integers in increasing order.
RECURSIVE SortedSeq(_)
SortedSeq(S) ==
  IF S = {} THEN << >> ELSE << SetMin(S) >> \o SortedSeq(S \ {SetMin(S)})

\* floor(sqrt(n)), by bisection on the result.
RECURSIVE IsqrtBetween(_, _, _)
IsqrtBetween(n, lo, hi) ==
  IF hi - lo <= 1 THEN lo
  ELSE LET mid == (lo + hi) \div 2
       IN IF mid * mid <= n THEN IsqrtBetween(n, mid, hi)
          ELSE IsqrtBetween(n, lo, mid)

\* 46341 * 46341 exceeds the largest integer.
Isqrt(n) ==
  IF n <= 0 THEN 0 ELSE IsqrtBetween(n, 0, IF n + 1 < 46341 THEN n + 1 ELSE 46341)

Abs(x) == IF x < 0 THEN -x ELSE x

\* round(num/den) to the nearest integer, ties to even (Python's round), den > 0.
RoundDiv(num, den) ==
  LET fl == IF num >= 0 THEN num \div den ELSE -((-num + den - 1) \div den)
      r2 == 2 * (num - fl * den)
  IN  IF r2 < den THEN fl
      ELSE IF r2 > den THEN fl + 1
      ELSE IF fl % 2 = 0 THEN fl ELSE fl + 1

NaN == << 0, 0 >>
IsNaN(x) == x[2] = 0
IsZero(x) == x[2] # 0 /\ x[1] = 0

VARIABLES
  pc,               \* position in the running script
  data,             \* the JSON file the script reads
  coordinates,      \* list of (lat, lon), vertex i at position i + 1
  feature_types,    \* network_gen.py: list of feature keys
  tri,              \* network_gen.py: simplices of the triangulation
  edges,            \* network_gen.py: set of (a, b) tuples
  g,                \* the igraph graph: [n, es, feature_type, latitude, longitude]
  graph_file,       \* sanfrancisco_network.graphml as written
  script,           \* which script computes the cluster records
  level,            \* community_multilevel: the contracted graph [n, w]
  level_membership, \* community_multilevel: vertex -> community of the level
  prev_q,           \* community_multilevel: modularity of the previous level
  clusters,         \* the VertexClustering: list of member lists
  cluster_data,     \* list of cluster records
  run,              \* number of the current run of the detector
  first_clusters,   \* the clusters of the first run on this graph
  cleaned_data,     \* clean_cluster_data.py: records that passed the filter
  stats,            \* clean_cluster_data.py: accessibility_scores, mean_score, std_dev
  z_scores,         \* clean_cluster_data.py
  min_max_z,        \* clean_cluster_data.py: <<min_z_score, max_z_score>>
  out_file          \* cleaned_data.json / cluster_data.json as written

vars == << pc, data, coordinates, feature_types, tri, edges, g, graph_file,
           script, level, level_membership, prev_q, clusters, cluster_data,
           run, first_clusters, cleaned_data, stats, z_scores, min_max_z,
           out_file >>

genvars == << data, coordinates, feature_types, tri, edges, g, graph_file >>
comvars == << script, level, level_membership, prev_q, clusters, cluster_data,
              run, first_clusters >>
cleanvars == << cleaned_data, stats, z_scores, min_max_z, out_file >>

NoGraph == [ n |-> 0, es |-> {}, feature_type |-> << >>,
             latitude |-> << >>, longitude |-> << >> ]
NoLevel == [ n |-> 0, w |-> << >>, deg |-> << >>, wsum |-> 0 ]

\* ===================================================== network_gen.py
\* The facilities file: a dict feature -> {"elements": [{lat, lon}, ...]},
\* in key order.  Every input holds both keys of FeatureInputs; a key may
\* have no elements.
JsonOf(keys, pts, k) ==
  << [ feature |-> keys[1], elements |-> SubSeq(pts, 1, k) ],
     [ feature |-> keys[2], elements |-> SubSeq(pts, k + 1, Len(pts)) ] >>

\* The files that list the points pts.
JsonFilesOf(pts) ==
  { JsonOf(keys, pts, k) :
      keys \in { FeatureInputs, << FeatureInputs[2], FeatureInputs[1] >> },
      k \in 0..Len(pts) }

\* Lines 23-28: for feature, items in data.items(): for item in elements.
RECURSIVE ExtractCoordinates(_)
ExtractCoordinates(d) ==
  IF d = << >> THEN << >>
  ELSE (IF Len(d[1].elements) # 0 THEN d[1].elements ELSE << >>)
       \o ExtractCoordinates(Tail(d))

RECURSIVE ExtractFeatureTypes(_)
ExtractFeatureTypes(d) ==
  IF d = << >> THEN << >>
  ELSE (IF Len(d[1].elements) # 0
        THEN [ k \in 1..Len(d[1].elements) |-> d[1].feature ] ELSE << >>)
       \o ExtractFeatureTypes(Tail(d))

\* geopy.Point accepts a latitude only in [-90, 90].
LatitudeOk(c) == Abs(c[1]) <= 90

\* geopy.Point brings any longitude into [-180, 180] without a word; nothing
\* in the scripts looks at it.
LongitudeOk(c) == Abs(c[2]) <= 180

\* Twice the signed area of (p, q, r): > 0 when counterclockwise.
Orient(p, q, r) ==
  (q[1] - p[1]) * (r[2] - p[2]) - (q[2] - p[2]) * (r[1] - p[1])

\* > 0 when d is strictly inside the circle through the ccw triangle a, b, c.
InCircle(a, b, c, d) ==
  LET ax == a[1] - d[1]  ay == a[2] - d[2]
      bx == b[1] - d[1]  by == b[2] - d[2]
      cx == c[1] - d[1]  cy == c[2] - d[2]
      a2 == ax * ax + ay * ay
      b2 == bx * bx + by * by
      c2 == cx * cx + cy * cy
  IN  ax * (by * c2 - b2 * cy) - ay * (bx * c2 - b2 * cx)
      + a2 * (bx * cy - by * cx)

\* Qhull fails ("initial simplex is flat") unless three points span the plane.
Degenerate(coords) ==
  ~ \E i, j, k \in 1..Len(coords) : Orient(coords[i], coords[j], coords[k]) # 0

\* Of points with equal coordinates one is a vertex of the triangulation, the
\* others are left out of every simplex (Delaunay.coplanar).
RepresentativeSets(coords) ==
  { R \in SUBSET (0..Len(coords) - 1) :
      \A i \in 0..Len(coords) - 1 :
        Cardinality({ j \in R : coords[j + 1] = coords[i + 1] }) = 1 }

\* Counterclockwise triangles of R with no point of R strictly inside their
\* circumcircle, listed from their smallest vertex.
DelaunayTriangles(coords, R) ==
  { t \in R \X R \X R :
      /\ t[1] < t[2] /\ t[1] < t[3] /\ t[2] # t[3]
      /\ Orient(coords[t[1] + 1], coords[t[2] + 1], coords[t[3] + 1]) > 0
      /\ \A d \in R \ { t[1], t[2], t[3] } :
           InCircle(coords[t[1] + 1], coords[t[2] + 1], coords[t[3] + 1],
                    coords[d + 1]) <= 0 }

SimplexEdges(t) == { << t[1], t[2] >>, << t[2], t[3] >>, << t[3], t[1] >> }

SegmentsCross(p1, p2, p3, p4) ==
  /\ Orient(p1, p2, p3) * Orient(p1, p2, p4) < 0
  /\ Orient(p3, p4, p1) * Orient(p3, p4, p2) < 0

Overlap(coords, t, u) ==
  \E e \in SimplexEdges(t), f \in SimplexEdges(u) :
    SegmentsCross(coords[e[1] + 1], coords[e[2] + 1],
                  coords[f[1] + 1], coords[f[2] + 1])

\* Delaunay(coordinates).simplices: the triangles are unique unless four
\* points lie on one circle, where either diagonal may be taken.
DelaunaySimplices(coords) ==
  UNION { { T \in SUBSET DelaunayTriangles(coords, R) :
              /\ \A t, u \in T : ~ Overlap(coords, t, u)
              /\ \A t \in DelaunayTriangles(coords, R) \ T :
                   \E u \in T : Overlap(coords, t, u) } :
          R \in RepresentativeSets(coords) }

\* Lines 44-48: the three tuples of every simplex, as listed, into a set.
EdgesOfSimplices(simplices) == UNION { SimplexEdges(t) : t \in simplices }

\* Lines 51-62: add_vertices(num_points), the attributes, add_edges(list(edges)).
\* add_edges adds one undirected edge per tuple.
MakeGraph(coords, ftypes, es) ==
  [ n |-> Len(coords), es |-> es, feature_type |-> ftypes,
    latitude |-> [ k \in 1..Len(coords) |-> coords[k][1] ],
    longitude |-> [ k \in 1..Len(coords) |-> coords[k][2] ] ]

InitCommon ==
  /\ coordinates = << >> /\ feature_types = << >> /\ tri = {} /\ edges = {}
  /\ g = NoGraph
  /\ script = "none" /\ level = NoLevel /\ level_membership = << >>
  /\ prev_q = 0 /\ clusters = << >> /\ cluster_data = << >>
  /\ run = 0 /\ first_clusters = << >>
  /\ cleaned_data = << >>
  /\ stats = [ accessibility_scores |-> << >>, mean_score |-> << 0, 1 >>,
               mean_error |-> 0, std_dev |-> 0 ]
  /\ z_scores = << >> /\ min_max_z = << >> /\ out_file = << >>

GenInit ==
  /\ pc = "gen_extract"
  /\ \E pts \in SeqsUpTo(Sites, MaxN) : data \in JsonFilesOf(pts)
  /\ graph_file = NoGraph
  /\ InitCommon

\* Lines 19-28.
GenExtract ==
  /\ pc = "gen_extract"
  /\ coordinates' = ExtractCoordinates(data)
  /\ feature_types' = ExtractFeatureTypes(data)
  /\ pc' = "gen_dist"
  /\ UNCHANGED << data, tri, edges, g, graph_file, comvars, cleanvars >>

\* Lines 31-38: great_circle() on every pair.  geopy 2 raises ValueError for a
\* latitude outside [-90, 90]; geopy 1 warns and goes on.
GenDistMatrix ==
  /\ pc = "gen_dist"
  /\ \/ pc' = "gen_delaunay"
     \/ /\ Len(coordinates) >= 2
        /\ \E k \in 1..Len(coordinates) : ~ LatitudeOk(coordinates[k])
        /\ pc' = "error"
  /\ UNCHANGED << genvars, comvars, cleanvars >>

\* Line 41: Delaunay(coordinates) raises for fewer than three points and for
\* points that do not span the plane.
GenDelaunay ==
  /\ pc = "gen_delaunay"
  /\ IF Degenerate(coordinates)
     THEN pc' = "error" /\ tri' = tri
     ELSE pc' = "gen_edges" /\ tri' \in DelaunaySimplices(coordinates)
  /\ UNCHANGED << data, coordinates, feature_types, edges, g, graph_file,
                  comvars, cleanvars >>

\* Lines 44-48.
GenEdges ==
  /\ pc = "gen_edges"
  /\ edges' = EdgesOfSimplices(tri)
  /\ pc' = "gen_graph"
  /\ UNCHANGED << data, coordinates, feature_types, tri, g, graph_file,
                  comvars, cleanvars >>

\* Lines 51-62.
GenGraph ==
  /\ pc = "gen_graph"
  /\ g' = MakeGraph(coordinates, feature_types, edges)
  /\ pc' = "gen_save"
  /\ UNCHANGED << data, coordinates, feature_types, tri, edges, graph_file,
                  comvars, cleanvars >>

\* Line 67: g.save("network/sanfrancisco_network.graphml").
GenSave ==
  /\ pc = "gen_save"
  /\ graph_file' = g
  /\ pc' = "gen_done"
  /\ UNCHANGED << data, coordinates, feature_types, tri, edges, g,
                  comvars, cleanvars >>

GenNext ==
  \/ GenExtract \/ GenDistMatrix \/ GenDelaunay \/ GenEdges \/ GenGraph
  \/ GenSave

SpecGen == GenInit /\ [][GenNext]_vars

\* ============================================ g.community_multilevel()
\* igraph's multilevel (Louvain) community detection, as called without
\* weights, resolution 1.  A level is a weighted graph: w[u][v] is the weight
\* between u and v, and w[v][v] twice the weight of the loops at v.
Vertices(L) == 0..L.n - 1

\* Sum of f[lo..hi].
RECURSIVE SumRange(_, _, _)
SumRange(f, lo, hi) == IF lo > hi THEN 0 ELSE f[lo] + SumRange(f, lo + 1, hi)

\* A level with the weighted degree of every vertex and weight_sum (twice
\* the total weight) kept beside the weights.
MakeLevel(n, w) ==
  LET deg == [ v \in 0..n - 1 |-> SumRange(w[v], 0, n - 1) ]
  IN  [ n |-> n, w |-> w, deg |-> deg, wsum |-> SumRange(deg, 0, n - 1) ]

LevelOfGraph(gr) ==
  MakeLevel(gr.n,
    [ u \in 0..gr.n - 1 |-> [ v \in 0..gr.n - 1 |->
        IF u = v THEN 0
        ELSE (IF << u, v >> \in gr.es THEN 1 ELSE 0)
             + (IF << v, u >> \in gr.es THEN 1 ELSE 0) ] ])

Degree(L, v) == L.deg[v]

WeightSum(L) == L.wsum

\* Weight of the links of ni into community c, ni itself left out.
LinkWeight(L, memb, ni, c) ==
  SumRange([ u \in Vertices(L) |->
             IF u # ni /\ memb[u] = c THEN L.w[ni][u] ELSE 0 ], 0, L.n - 1)

\* weight_all of community c once ni is taken out of it.
CommunityWeight(L, memb, ni, c) ==
  SumRange([ u \in Vertices(L) |->
             IF u # ni /\ memb[u] = c THEN L.deg[u] ELSE 0 ], 0, L.n - 1)

\* The modularity gain of putting ni into c, times weight_sum.
ModularityGain(L, memb, ni, c) ==
  WeightSum(L) * LinkWeight(L, memb, ni, c)
  - CommunityWeight(L, memb, ni, c) * Degree(L, ni)

\* One vertex of a pass: ni leaves its community and joins the linked
\* community of largest gain, the lowest id among equals; it stays when no
\* gain is positive.
MoveTo(memb, ni, linked, gain) ==
  IF linked = {} THEN memb
  ELSE IF SetMax({ gain[c] : c \in linked }) <= 0 THEN memb
  ELSE [ memb EXCEPT ![ni] =
           SetMin({ c \in linked : gain[c] = SetMax({ gain[d] : d \in linked }) }) ]

MoveVertex(L, memb, ni) ==
  MoveTo(memb, ni,
         { memb[u] : u \in { x \in Vertices(L) : x # ni /\ L.w[ni][x] > 0 } },
         [ c \in Vertices(L) |-> ModularityGain(L, memb, ni, c) ])

RECURSIVE OnePass(_, _, _)
OnePass(L, memb, order) ==
  IF order = << >> THEN memb
  ELSE OnePass(L, MoveVertex(L, memb, order[1]), Tail(order))

\* Modularity of a membership, times weight_sum squared.
Modularity(L, memb) ==
  LET inside == [ u \in Vertices(L) |->
                  SumRange([ v \in Vertices(L) |->
                             IF memb[v] = memb[u] THEN L.w[u][v] ELSE 0 ],
                           0, L.n - 1) ]
      all == [ c \in Vertices(L) |->
               SumRange([ v \in Vertices(L) |->
                          IF memb[v] = c THEN L.deg[v] ELSE 0 ], 0, L.n - 1) ]
  IN  WeightSum(L) * SumRange(inside, 0, L.n - 1)
      - SumRange([ c \in Vertices(L) |-> all[c] * all[c] ], 0, L.n - 1)

\* Passes in the same vertex order until a pass moves nothing or does not
\* raise the modularity; the membership of that last pass is dropped.
RECURSIVE Passes(_, _, _, _), PassResult(_, _, _, _, _)
Passes(L, memb, order, pass_q) == PassResult(L, memb, order, pass_q, OnePass(L, memb, order))

PassResult(L, memb, order, pass_q, next) == 
  IF next = memb THEN memb
  ELSE IF Modularity(L, next) > pass_q
       THEN Passes(L, next, order, Modularity(L, next)) ELSE memb

\* igraph_reindex_membership: ids 0..k-1 in order of first appearance.
Reindex(L, memb) ==
  [ v \in Vertices(L) |->
      LET first == SetMin({ u \in Vertices(L) : memb[u] = memb[v] })
      IN  Cardinality({ memb[u] : u \in { x \in Vertices(L) : x < first } }) ]

\* The communities become the vertices of the next level.
Contract(L, m) ==
  LET k == Cardinality({ m[v] : v \in Vertices(L) })
  IN  MakeLevel(k,
        [ c \in 0..k - 1 |-> [ d \in 0..k - 1 |->
            SumRange([ u \in Vertices(L) |->
                       IF m[u] = c
                       THEN SumRange([ v \in Vertices(L) |->
                                       IF m[v] = d THEN L.w[u][v] ELSE 0 ],
                                     0, L.n - 1)
                       ELSE 0 ], 0, L.n - 1) ] ])

\* igraph_i_community_multilevel_step for one shuffled vertex order.
StepResultOf(L, m) ==
  [ membership |-> m, graph |-> Contract(L, m), q |-> Modularity(L, m) ]

Singletons(L) == [ v \in Vertices(L) |-> v ]

MultilevelStepResult(L, order) ==
  StepResultOf(L, Reindex(L, Passes(L, Singletons(L), order,
                                    Modularity(L, Singletons(L)))))

\* The vertex orders the shuffle can produce.
Orders(n) ==
  { [ k \in 1..n |-> p[k - 1] ] : p \in Permutations(0..n - 1) }

\* A faulty clustering that loses the last vertex; C1 does not hold for it.
VertexClusteringLossy(membership, n) ==
  LET k == IF n = 0 THEN 0 ELSE SetMax({ membership[v] : v \in 0..n - 1 }) + 1
  IN  [ c \in 1..k |-> SortedSeq({ v \in 0..n - 2 : membership[v] = c - 1 }) ]

\* VertexClustering.__iter__: cluster c lists the vertices of membership c,
\* in increasing order.
VertexClustering(membership, n) ==
  LET k == IF n = 0 THEN 0 ELSE SetMax({ membership[v] : v \in 0..n - 1 }) + 1
  IN  [ c \in 1..k |-> SortedSeq({ v \in 0..n - 1 : membership[v] = c - 1 }) ]

\* community_multilevel() begins: the level is the graph, every vertex its own
\* community, prev_q = -1 (times weight_sum squared).
BeginMultilevel ==
  /\ level' = LevelOfGraph(g)
  /\ level_membership' = [ v \in 0..g.n - 1 |-> v ]
  /\ prev_q' = -(WeightSum(LevelOfGraph(g)) * WeightSum(LevelOfGraph(g)))

\* One level of community_multilevel().  The loop ends when a level merges
\* nothing or lowers the modularity; the clustering is the last kept level.
MultilevelStep ==
  /\ pc = "multilevel"
  /\ \E order \in Orders(level.n) :
       \E r \in { MultilevelStepResult(level, order) } :
           IF r.graph.n = level.n \/ r.q < prev_q
           THEN /\ clusters' = VertexClustering(level_membership, g.n)
                /\ pc' = "clustered"
                /\ UNCHANGED << level, level_membership, prev_q >>
           ELSE /\ level' = r.graph
                /\ level_membership' =
                     [ v \in 0..g.n - 1 |-> r.membership[level_membership[v]] ]
                /\ prev_q' = r.q
                /\ pc' = "multilevel"
                /\ UNCHANGED clusters
  /\ UNCHANGED << genvars, script, cluster_data, run, first_clusters, cleanvars >>

\* ----------------------------------------- the detector on a graph file
\* The graph files add_edges writes for a triangulation of at most k
\* triangles on n points: the simplices are counterclockwise, so no two of
\* them list an edge in the same direction, and each is joined to the others
\* across shared edges.  Points outside every simplex are duplicates.
Triangles(n) ==
  { t \in (0..n - 1) \X (0..n - 1) \X (0..n - 1) :
      t[1] < t[2] /\ t[1] < t[3] /\ t[2] # t[3] }

Adjacent(t, u) ==
  \E e \in SimplexEdges(t) : << e[2], e[1] >> \in SimplexEdges(u)

RECURSIVE Joined(_, _)
\* The simplices of T reached from those of S across shared edges.
Joined(S, T) ==
  IF \E u \in T \ S : \E t \in S : Adjacent(t, u)
  THEN Joined(S \cup { u \in T \ S : \E t \in S : Adjacent(t, u) }, T)
  ELSE S

TriangleSets(n, k) ==
  { T \in SUBSET Triangles(n) :
      /\ Cardinality(T) <= k
      /\ \A t, u \in T : t # u => SimplexEdges(t) \cap SimplexEdges(u) = {}
      /\ T # {} => Joined({ CHOOSE t \in T : TRUE }, T) = T }

BareGraph(n, es) ==
  [ n |-> n, es |-> es, feature_type |-> [ k \in 1..n |-> FeatureInputs[1] ],
    latitude |-> [ k \in 1..n |-> 0 ], longitude |-> [ k \in 1..n |-> 0 ] ]

CommunityInit ==
  /\ pc = "read_graph"
  /\ data = << >>
  /\ InitCommon
  /\ \E n \in 0..MaxV : \E T \in TriangleSets(n, MaxTri) :
       graph_file = BareGraph(n, EdgesOfSimplices(T))

\* analysis.py lines 9 and 18: the graph is read and the coordinates are
\* taken from its vertex attributes.  (network.py lines 15-59 build the same
\* graph in memory.)
LoadGraph ==
  /\ pc = "read_graph"
  /\ g' = graph_file
  /\ coordinates' = [ k \in 1..graph_file.n |->
                       << graph_file.latitude[k], graph_file.longitude[k] >> ]
  /\ pc' = "begin"
  /\ UNCHANGED << data, feature_types, tri, edges, graph_file,
                  comvars, cleanvars >>

\* analysis.py line 26, network.py line 66: clusters = g.community_multilevel().
CommunityBegin ==
  /\ pc = "begin"
  /\ BeginMultilevel
  /\ run' = run + 1
  /\ pc' = "multilevel"
  /\ UNCHANGED << genvars, script, clusters, cluster_data, first_clusters,
                  cleanvars >>

\* The script is run again on the same graph file.
RunAgain ==
  /\ pc = "clustered"
  /\ run < MaxRuns
  /\ first_clusters' = IF run = 1 THEN clusters ELSE first_clusters
  /\ pc' = "begin"
  /\ UNCHANGED << genvars, script, level, level_membership, prev_q, clusters,
                  cluster_data, run, cleanvars >>

CommunityNext == LoadGraph \/ CommunityBegin \/ MultilevelStep \/ RunAgain

SpecCommunity == CommunityInit /\ [][CommunityNext]_vars

\* ===================================== analysis.py / network.py: metrics
\* great_circle(coord1, coord2), in metres, of two points given in millionths
\* of a degree; the differences are taken in thousandths of a degree.
haversine_distance(coord1, coord2) ==
  LET dlat == Abs(coord1[1] - coord2[1]) \div 1000
      dlon == Abs(coord1[2] - coord2[2]) \div 1000
  IN  (MetresPerDegree * Isqrt(dlat * dlat + dlon * dlon)) \div 1000

MicroDegrees(c) == << c[1] * Micro, c[2] * Micro >>

\* np.mean of the latitudes and of the longitudes, in millionths of a degree.
Centroid(cluster_coords) ==
  LET n == Len(cluster_coords)
  IN  << RoundDiv(SumSeq([ k \in 1..n |-> cluster_coords[k][1] ]) * Micro, n),
         RoundDiv(SumSeq([ k \in 1..n |-> cluster_coords[k][2] ]) * Micro, n) >>

\* max distance from the centroid to a member, in metres.
MaxDistance(centroid, cluster_coords) ==
  SetMax({ haversine_distance(centroid, MicroDegrees(cluster_coords[k])) :
           k \in 1..Len(cluster_coords) })

\* analysis.py lines 57-64: every category starts at 0; a member whose
\* feature_type is no key of the dict is not counted.
FeatureCounts(gr, cluster_indices) ==
  [ f \in KnownFeatures |->
      Cardinality({ k \in 1..Len(cluster_indices) :
                    gr.feature_type[cluster_indices[k] + 1] = f }) ]

\* analysis.py calculate_cluster_metrics(cluster_indices).
calculate_cluster_metrics(gr, coords, cluster_indices) ==
  LET cluster_coords == [ k \in 1..Len(cluster_indices) |->
                          coords[cluster_indices[k] + 1] ]
  IN  [ centroid |-> Centroid(cluster_coords),
        max_distance |-> MaxDistance(Centroid(cluster_coords), cluster_coords),
        feature_counts |-> FeatureCounts(gr, cluster_indices) ]

\* ---- g.subgraph(cluster) and its topological metrics
\* Neighbours of v inside the member set S.
SubNeighbours(gr, S, v) ==
  { u \in S : u # v /\ (<< u, v >> \in gr.es \/ << v, u >> \in gr.es) }

\* Edges of the induced subgraph, parallel edges counted.
SubEdgeCount(gr, S) ==
  Cardinality({ e \in gr.es : e[1] \in S /\ e[2] \in S })

RECURSIVE BfsDistance(_, _, _, _, _, _)
\* Length of the shortest path to target inside S, -1 when there is none.
BfsDistance(gr, S, frontier, seen, target, d) ==
  IF target \in frontier THEN d
  ELSE LET next == UNION { SubNeighbours(gr, S, x) : x \in frontier } \ seen
       IN  IF next = {} THEN -1
           ELSE BfsDistance(gr, S, next, seen \cup next, target, d + 1)

SubDistance(gr, S, u, v) == BfsDistance(gr, S, {u}, {u}, v, 0)

Quotient(num, den) == IF den = 0 THEN NaN ELSE << num, den >>

\* Graph.diameter(): the longest finite shortest path (unconn=True).
Diameter(gr, S) ==
  IF S = {} THEN NaN
  ELSE << SetMax({ SubDistance(gr, S, u, v) : u \in S, v \in S } \cup {0}), 1 >>

\* Graph.average_path_length(): mean over the connected pairs, NaN without one.
AveragePathLength(gr, S) ==
  LET pairs == { p \in S \X S : p[1] < p[2] /\ SubDistance(gr, S, p[1], p[2]) > 0 }
  IN  Quotient(SumSet([ p \in pairs |-> SubDistance(gr, S, p[1], p[2]) ], pairs),
               Cardinality(pairs))

\* Graph.density(): edges / (n (n - 1) / 2), NaN for fewer than two vertices.
Density(gr, S) ==
  Quotient(2 * SubEdgeCount(gr, S), Cardinality(S) * (Cardinality(S) - 1))

\* Graph.transitivity_undirected(): closed / connected triples, NaN without a
\* connected triple; parallel edges count once.
Transitivity(gr, S) ==
  LET triples == { t \in S \X S \X S :
                     /\ t[2] < t[3]
                     /\ t[2] \in SubNeighbours(gr, S, t[1])
                     /\ t[3] \in SubNeighbours(gr, S, t[1]) }
      closed == { t \in triples : t[3] \in SubNeighbours(gr, S, t[2]) }
  IN  Quotient(Cardinality(closed), Cardinality(triples))

\* analysis.py lines 87-92: x if not np.isnan(x) else 0.
ReplaceNaN(x) == IF IsNaN(x) THEN << 0, 1 >> ELSE x

TopologyMetrics(gr, S) ==
  [ diameter |-> Diameter(gr, S),
    average_path_length |-> AveragePathLength(gr, S),
    density |-> Density(gr, S),
    clustering_coefficient |-> Transitivity(gr, S) ]

\* analysis.py lines 73-110: the record of cluster i (0-based).
AnalysisClusterInfo(gr, coords, i, cluster) ==
  LET m == calculate_cluster_metrics(gr, coords, cluster)
      t == TopologyMetrics(gr, Range(cluster))
  IN  [ cluster_id |-> i + 1,
        members |-> cluster,
        centroid |-> [ latitude |-> m.centroid[1], longitude |-> m.centroid[2] ],
        radius_meters |-> m.max_distance,
        feature_counts |-> m.feature_counts,
        topology_metrics |->
          [ diameter |-> ReplaceNaN(t.diameter),
            average_path_length |-> ReplaceNaN(t.average_path_length),
            density |-> ReplaceNaN(t.density),
            clustering_coefficient |-> ReplaceNaN(t.clustering_coefficient) ] ]

\* network.py lines 85-113: no feature counts, and the metrics as igraph
\* returns them.
NetworkClusterInfo(gr, coords, i, cluster) ==
  LET m == calculate_cluster_metrics(gr, coords, cluster)
  IN  [ cluster_id |-> i + 1,
        members |-> cluster,
        centroid |-> [ latitude |-> m.centroid[1], longitude |-> m.centroid[2] ],
        radius_meters |-> m.max_distance,
        topology_metrics |-> TopologyMetrics(gr, Range(cluster)) ]

\* (lat, lon) in ascending order, equal points allowed.
Ascending(coords) ==
  \A j, k \in 1..Len(coords) :
    j < k => \/ coords[j][1] < coords[k][1]
             \/ coords[j][1] = coords[k][1] /\ coords[j][2] <= coords[k][2]

\* The graphs network_gen.py saves for the files of valid coordinates that
\* list their points in ascending order.
AnalysisInit ==
  /\ pc = "read_graph"
  /\ data = << >>
  /\ InitCommon
  /\ \E pts \in { c \in SeqsUpTo({ site \in Sites : LatitudeOk(site) /\ LongitudeOk(site) },
                                MaxN) :
                    Ascending(c) /\ ~ Degenerate(c) } :
       \E T \in DelaunaySimplices(pts) : \E d \in JsonFilesOf(pts) :
         graph_file = MakeGraph(ExtractCoordinates(d), ExtractFeatureTypes(d),
                                EdgesOfSimplices(T))

\* Which of the two scripts runs: analysis.py on the graph file, or
\* network.py, which builds the same graph itself.
ChooseScript ==
  /\ pc = "clustered"
  /\ script = "none"
  /\ script' \in { "analysis", "network" }
  /\ UNCHANGED << pc, genvars, level, level_membership, prev_q, clusters,
                  cluster_data, run, first_clusters, cleanvars >>

\* One round of `for i, cluster in enumerate(clusters)`.
RecordCluster ==
  /\ pc = "clustered"
  /\ script # "none"
  /\ Len(cluster_data) < Len(clusters)
  /\ LET i == Len(cluster_data)
     IN  cluster_data' = Append(cluster_data,
           IF script = "analysis"
           THEN AnalysisClusterInfo(g, coordinates, i, clusters[i + 1])
           ELSE NetworkClusterInfo(g, coordinates, i, clusters[i + 1]))
  /\ UNCHANGED << pc, genvars, script, level, level_membership, prev_q,
                  clusters, run, first_clusters, cleanvars >>

\* After the loop: network.py lines 116-117 write cluster_data.json; in
\* analysis.py the json.dump is commented out.
FinishRecords ==
  /\ pc = "clustered"
  /\ script # "none"
  /\ Len(cluster_data) = Len(clusters)
  /\ out_file' = IF script = "network" THEN cluster_data ELSE out_file
  /\ pc' = "done"
  /\ UNCHANGED << genvars, comvars, cleaned_data, stats, z_scores, min_max_z >>

AnalysisNext ==
  \/ LoadGraph \/ CommunityBegin \/ MultilevelStep \/ ChooseScript
  \/ RecordCluster \/ FinishRecords

SpecAnalysis == AnalysisInit /\ [][AnalysisNext]_vars

\* ---------------------------- the record of any member list of a graph
\* Lines 73-110 of analysis.py (85-113 of network.py) for one cluster, as a
\* function of the graph and the member list: the list is any non-empty list
\* of vertices in increasing order, not only one the detector returns.
MeasureMembers ==
  /\ pc = "begin"
  /\ \E sc \in { "analysis", "network" } :
       \E cluster \in { SortedSeq(S) : S \in (SUBSET (0..g.n - 1)) \ { {} } } :
         /\ script' = sc
         /\ clusters' = << cluster >>
         /\ cluster_data' =
              << IF sc = "analysis"
                 THEN AnalysisClusterInfo(g, coordinates, 0, cluster)
                 ELSE NetworkClusterInfo(g, coordinates, 0, cluster) >>
  /\ pc' = "done"
  /\ UNCHANGED << genvars, level, level_membership, prev_q, run,
                  first_clusters, cleanvars >>

MetricsNext == LoadGraph \/ MeasureMembers

SpecMetrics == AnalysisInit /\ [][MetricsNext]_vars

\* ============================================== clean_cluster_data.py
\* great_circle(coord1, coord2).kilometers of two points in degrees, in whole
\* kilometres.
KmDistance(coord1, coord2) ==
  haversine_distance(MicroDegrees(coord1), MicroDegrees(coord2)) \div 1000

\* Lines 20-28: 0 for fewer than two coordinates, else total / count over the
\* pairs of combinations(member_coordinates, 2).
calculate_mean_pairwise_distance(member_coordinates) ==
  LET n == Len(member_coordinates)
      pairs == { p \in (1..n) \X (1..n) : p[1] < p[2] }
  IN  IF n < 2 THEN << 0, 1 >>
      ELSE << SumSet([ p \in pairs |-> KmDistance(member_coordinates[p[1]],
                                                 member_coordinates[p[2]]) ],
                     pairs),
              Cardinality(pairs) >>

\* Lines 31-33: 1 / (1 + mean_distance).
calculate_proximity_factor(member_coordinates) ==
  LET mean_distance == calculate_mean_pairwise_distance(member_coordinates)
  IN  << mean_distance[2], mean_distance[2] + mean_distance[1] >>

\* Lines 36-38: categories with a positive count / total count, 0 when the
\* total is 0.
calculate_diversity_index(feature_counts) ==
  LET total_features == SumSet(feature_counts, DOMAIN feature_counts)
  IN  IF total_features > 0
      THEN << Cardinality({ key \in DOMAIN feature_counts :
                            feature_counts[key] > 0 }), total_features >>
      ELSE << 0, 1 >>

\* Lines 41-42 on g.subgraph(member_ids): sum of the degrees / vcount.
calculate_average_degree(gr, S) ==
  IF Cardinality(S) > 0 THEN << 2 * SubEdgeCount(gr, S), Cardinality(S) >>
  ELSE << 0, 1 >>

\* Lines 49-52, in hundredths of a kilometre.
calculate_radius(centroid, member_coordinates) ==
  IF member_coordinates = << >> THEN 0
  ELSE RoundDiv(MaxDistance(centroid, member_coordinates), 10)

\* round(x, digits) of a quotient, in units of 1/scale; NaN stays NaN.
RoundQuotient(x, scale) ==
  IF IsNaN(x) THEN NaN ELSE << RoundDiv(x[1] * scale, x[2]), scale >>

\* Lines 86-89: round(proximity_factor + diversity_index, 4).
RawScore(proximity_factor, diversity_index) ==
  RoundDiv(ScoreScale * (proximity_factor[1] * diversity_index[2]
                         + diversity_index[1] * proximity_factor[2]),
           proximity_factor[2] * diversity_index[2])

\* A faulty filter that keeps a radius of exactly 10; C8 does not hold for it.
PassesFilterLoose(record) == record.radius_meters >= MinRadius

\* Line 59: if data[i]["radius_meters"] > 10.
PassesFilter(record) == record.radius_meters > MinRadius

\* Lines 60-107: the cleaned cluster of one record.
CleanCluster(gr, record) ==
  LET member_ids == record.members
      member_coordinates ==
        [ k \in 1..Len(member_ids) |->
            << gr.latitude[member_ids[k] + 1], gr.longitude[member_ids[k] + 1] >> ]
      topology_metrics == record.topology_metrics
  IN  [ id |-> record.cluster_id,
        center_coordinate_lat |-> record.centroid.latitude,
        center_coordinate_lon |-> record.centroid.longitude,
        radius |-> record.radius_meters,
        accessibility_score |->
          RawScore(calculate_proximity_factor(member_coordinates),
                   calculate_diversity_index(record.feature_counts)),
        core_values |->
          [ average_degree |->
              RoundQuotient(calculate_average_degree(gr, Range(member_ids)), 100),
            radius |->
              calculate_radius(<< record.centroid.latitude,
                                  record.centroid.longitude >>,
                               member_coordinates),
            diameter |-> RoundQuotient(topology_metrics.diameter, 100),
            average_path_length |->
              RoundQuotient(topology_metrics.average_path_length, 100),
            density |-> RoundQuotient(topology_metrics.density, ScoreScale),
            clustering_coefficient |->
              RoundQuotient(topology_metrics.clustering_coefficient, ScoreScale) ] ]

\* Lines 55-110: for i in range(len(data)), appending the clusters that pass.
RECURSIVE FirstPass(_, _)
FirstPass(gr, records) ==
  IF records = << >> THEN << >>
  ELSE (IF PassesFilter(records[1]) THEN << CleanCluster(gr, records[1]) >>
        ELSE << >>)
       \o FirstPass(gr, Tail(records))

AllEqual(s) == \A j, k \in 1..Len(s) : s[j] = s[k]

\* sum(accessibility_scores) / len(accessibility_scores) is a float: for three
\* or more equal scores it can fall a rounding error beside them.  The sign of
\* (score - mean_score) is then that of the error; elsewhere the error is far
\* below the differences of the scores.
MeanErrors(scores) ==
  IF Len(scores) >= 3 /\ AllEqual(scores) THEN { -1, 0, 1 } ELSE { 0 }

\* Line 114.
MeanScore(scores) ==
  IF scores # << >> THEN << SumSeq(scores), Len(scores) >> ELSE << 0, 1 >>

\* (x - mean_score) times len(accessibility_scores).
Deviation(scores, mean_error, k) ==
  IF AllEqual(scores) THEN -mean_error
  ELSE Len(scores) * scores[k] - SumSeq(scores)

\* Line 115: the square root of the mean squared deviation is positive when a
\* deviation is not 0; std_dev is kept as 0 or 1, zero or positive.
StdDevSign(scores, mean_error) ==
  IF Len(scores) > 1
  THEN (IF \E k \in 1..Len(scores) : Deviation(scores, mean_error, k) # 0
        THEN 1 ELSE 0)
  ELSE 0

\* Lines 119-124.  A positive std_dev divides every z-score alike, so a
\* z-score is kept as its numerator (x - mean_score) * len.
ZScore(st, k) ==
  IF st.std_dev > 0
  THEN Deviation(st.accessibility_scores, st.mean_error, k)
  ELSE 0

\* A faulty normalisation without the else branch of line 135; C4 does not
\* hold for it.
NormalizedScoreNoGuard(z_score, min_z_score, max_z_score) ==
  IF max_z_score > min_z_score
  THEN RoundDiv(2 * ScoreScale * (z_score - min_z_score),
                max_z_score - min_z_score) - ScoreScale
  ELSE -ScoreScale

\* A faulty normalisation that does not subtract 1; C5 does not hold for it.
NormalizedScoreUnshifted(z_score, min_z_score, max_z_score) ==
  IF max_z_score > min_z_score
  THEN RoundDiv(2 * ScoreScale * (z_score - min_z_score),
                max_z_score - min_z_score)
  ELSE 0

\* Lines 132-138: round(2 * ((z - min) / (max - min)) - 1, 4), or 0.
NormalizedScore(z_score, min_z_score, max_z_score) ==
  IF max_z_score > min_z_score
  THEN RoundDiv(2 * ScoreScale * (z_score - min_z_score),
                max_z_score - min_z_score) - ScoreScale
  ELSE 0

\* ---- the files clean_cluster_data.py reads
\* A triangle and a second point at the place of its first corner.
CleanPoints == << <<0, 0>>, <<0, 1>>, <<1, 0>>, <<0, 0>> >>

CleanFeatureTypes ==
  { << "ramps", "ramps", "ramps", "ramps" >>,
    << "ramps", "ramps", "benches", "benches" >> }

CleanGraphs ==
  { MakeGraph(CleanPoints, ft, EdgesOfSimplices(T)) :
      ft \in CleanFeatureTypes, T \in DelaunaySimplices(CleanPoints) }

\* radius_meters of a record: below, at and above the threshold.  (The points
\* of the model lie degrees apart, those of a real file metres.)
RadiusInputs == { 0, MinRadius, MinRadius + 1 }

MemberLists(n) == { SortedSeq(S) : S \in (SUBSET (0..n - 1)) \ { {} } }

\* The member lists of up to MaxClusters clusters of n vertices.
DisjointLists(n) ==
  { ms \in SeqsUpTo(MemberLists(n), MaxClusters) :
      \A j, k \in 1..Len(ms) : j < k => Range(ms[j]) \cap Range(ms[k]) = {} }

\* cluster_data.json as analysis.py builds it for the clusters ms.
ClusterFile(gr, ms, rs) ==
  [ k \in 1..Len(ms) |->
      [ AnalysisClusterInfo(gr, CleanPoints, k - 1, ms[k])
          EXCEPT !.radius_meters = rs[k] ] ]

CleanInit ==
  /\ pc = "clean_read"
  /\ InitCommon
  /\ \E gr \in CleanGraphs : \E ms \in DisjointLists(gr.n) :
       \E rs \in [ 1..Len(ms) -> RadiusInputs ] :
         /\ graph_file = gr
         /\ data = ClusterFile(gr, ms, rs)

\* Lines 8-13: the two files are read.
CleanLoad ==
  /\ pc = "clean_read"
  /\ g' = graph_file
  /\ cleaned_data' = << >>
  /\ pc' = "clean_first_pass"
  /\ UNCHANGED << data, coordinates, feature_types, tri, edges, graph_file,
                  comvars, stats, z_scores, min_max_z, out_file >>

\* Lines 55-110.
CleanFirstPass ==
  /\ pc = "clean_first_pass"
  /\ cleaned_data' = FirstPass(g, data)
  /\ pc' = "clean_stats"
  /\ UNCHANGED << genvars, comvars, stats, z_scores, min_max_z, out_file >>

\* Lines 113-115.
CleanStats ==
  /\ pc = "clean_stats"
  /\ \E scores \in { [ k \in 1..Len(cleaned_data) |->
                       cleaned_data[k].accessibility_score ] } :
       \E mean_error \in MeanErrors(scores) :
         stats' = [ accessibility_scores |-> scores,
                    mean_score |-> MeanScore(scores),
                    mean_error |-> mean_error,
                    std_dev |-> StdDevSign(scores, mean_error) ]
  /\ pc' = "clean_z_scores"
  /\ UNCHANGED << genvars, comvars, cleaned_data, z_scores, min_max_z, out_file >>

\* Lines 118-124.
CleanZScores ==
  /\ pc = "clean_z_scores"
  /\ z_scores' = [ k \in 1..Len(stats.accessibility_scores) |-> ZScore(stats, k) ]
  /\ pc' = "clean_min_max"
  /\ UNCHANGED << genvars, comvars, cleaned_data, stats, min_max_z, out_file >>

\* Lines 127-128: min() and max() raise ValueError on an empty list.
CleanMinMax ==
  /\ pc = "clean_min_max"
  /\ IF z_scores = << >>
     THEN pc' = "error" /\ UNCHANGED min_max_z
     ELSE /\ min_max_z' = << SetMin(Range(z_scores)), SetMax(Range(z_scores)) >>
          /\ pc' = "clean_normalize"
  /\ UNCHANGED << genvars, comvars, cleaned_data, stats, z_scores, out_file >>

\* Lines 131-138.
CleanNormalize ==
  /\ pc = "clean_normalize"
  /\ cleaned_data' =
       [ k \in 1..Len(cleaned_data) |->
           [ cleaned_data[k] EXCEPT !.accessibility_score =
               NormalizedScore(z_scores[k], min_max_z[1], min_max_z[2]) ] ]
  /\ pc' = "clean_save"
  /\ UNCHANGED << genvars, comvars, stats, z_scores, min_max_z, out_file >>

\* Lines 141-142.
CleanSave ==
  /\ pc = "clean_save"
  /\ out_file' = cleaned_data
  /\ pc' = "clean_done"
  /\ UNCHANGED << genvars, comvars, cleaned_data, stats, z_scores, min_max_z >>

CleanNext ==
  \/ CleanLoad \/ CleanFirstPass \/ CleanStats \/ CleanZScores \/ CleanMinMax
  \/ CleanNormalize \/ CleanSave

SpecClean == CleanInit /\ [][CleanNext]_vars

\* ================================================================ claims
\* ---- C1 (SpecAnalysis)
\* C1: once every cluster record is built, each vertex index 0..N-1 is a
\* member of exactly one record, no record lists a vertex twice, and no
\* member lies outside 0..N-1.
C1_MembersPartitionVertices ==
  pc = "done" =>
    /\ \A v \in 0..g.n - 1 :
         Cardinality({ k \in 1..Len(cluster_data) :
                       v \in Range(cluster_data[k].members) }) = 1
    /\ \A k \in 1..Len(cluster_data) :
         /\ Range(cluster_data[k].members) \subseteq 0..g.n - 1
         /\ Cardinality(Range(cluster_data[k].members))
              = Len(cluster_data[k].members)

\* Two records are built for a graph of four vertices.
C1_Witness ==
  /\ pc = "done" /\ script = "analysis"
  /\ g.n = 4 /\ Len(cluster_data) = 2
  /\ Len(cluster_data[1].members) + Len(cluster_data[2].members) = 4

\* ---- C2 (SpecAnalysis)
\* C2: every record of analysis.py has the twelve categories as the keys of
\* feature_counts, with counts >= 0 that sum to the number of members.
C2_FeatureCountsSumToMembers ==
  script = "analysis" =>
    \A k \in 1..Len(cluster_data) :
      /\ DOMAIN cluster_data[k].feature_counts = KnownFeatures
      /\ Cardinality(KnownFeatures) = 12
      /\ \A f \in KnownFeatures : cluster_data[k].feature_counts[f] >= 0
      /\ SumSet(cluster_data[k].feature_counts, KnownFeatures)
           = Len(cluster_data[k].members)

\* ---- C3 (SpecGen)
\* C3: the saved graph is simple: no edge is stored in both directions, no
\* edge is a self-loop, and every endpoint is a vertex index 0..N-1.
C3_GraphIsSimple ==
  pc = "gen_done" =>
    \A e \in graph_file.es :
      /\ << e[2], e[1] >> \notin graph_file.es
      /\ e[1] # e[2]
      /\ e[1] \in 0..graph_file.n - 1 /\ e[2] \in 0..graph_file.n - 1

\* ---- C7 (SpecGen)
\* C7: for fewer than three points the script does not fail, and the graph it
\* saves has one vertex per point and no edge.
C7_FewPointsGiveEdgelessGraph ==
  Len(ExtractCoordinates(data)) < 3 =>
    /\ pc # "error"
    /\ pc = "gen_done" =>
         graph_file.n = Len(ExtractCoordinates(data)) /\ graph_file.es = {}

\* ---- C9 (SpecAnalysis)
\* C9: a record with exactly one member has radius 0 and diameter, average
\* path length, density and clustering coefficient 0, and the proximity
\* factor of its one coordinate is 1.
C9_SingleMemberMetricsAreZero ==
  \A k \in 1..Len(cluster_data) :
    Len(cluster_data[k].members) = 1 =>
      /\ cluster_data[k].radius_meters = 0
      /\ IsZero(cluster_data[k].topology_metrics.diameter)
      /\ IsZero(cluster_data[k].topology_metrics.average_path_length)
      /\ IsZero(cluster_data[k].topology_metrics.density)
      /\ IsZero(cluster_data[k].topology_metrics.clustering_coefficient)
      /\ calculate_proximity_factor(
           << coordinates[cluster_data[k].members[1] + 1] >>) = << 1, 1 >>

\* ---- C10 (SpecCommunity)
\* C10: the second run of the detector on a graph yields the clusters of the
\* first run.
C10_RunsAgree ==
  (pc = "clustered" /\ run = 2) => clusters = first_clusters

\* ---- C4, C5, C6, C8 (SpecClean)
\* The raw scores of the batch, and the final scores of the cleaned clusters.
RawScores == stats.accessibility_scores
FinalScores ==
  [ k \in 1..Len(cleaned_data) |-> cleaned_data[k].accessibility_score ]

Normalized == pc \in { "clean_save", "clean_done" }

\* C4: when all surviving clusters (one or more) have the same raw score, the
\* run does not fail and every cluster ends with the normalised score 0.
C4_EqualScoresNormalizeToZero ==
  (RawScores # << >> /\ AllEqual(RawScores)) =>
    /\ pc # "error"
    /\ Normalized => \A k \in 1..Len(cleaned_data) : FinalScores[k] = 0
    /\ pc = "clean_done" =>
         \A k \in 1..Len(out_file) : out_file[k].accessibility_score = 0

\* Three clusters of one raw score are written with score 0.
C4_Witness ==
  /\ pc = "clean_done"
  /\ Len(out_file) = 3 /\ AllEqual(RawScores)
  /\ \A k \in 1..3 : out_file[k].accessibility_score = 0

\* C5: every final score lies in [-1, 1]; when the raw scores differ, the
\* clusters of the smallest raw score get -1 and those of the largest +1; and
\* a cluster with the smaller raw score never gets the larger final score.
C5_ScoresInRangeAndOrdered ==
  (Normalized /\ RawScores # << >>) =>
    /\ \A k \in 1..Len(RawScores) :
         /\ -ScoreScale <= FinalScores[k] /\ FinalScores[k] <= ScoreScale
         /\ ~ AllEqual(RawScores) =>
              /\ RawScores[k] = SetMin(Range(RawScores))
                   => FinalScores[k] = -ScoreScale
              /\ RawScores[k] = SetMax(Range(RawScores))
                   => FinalScores[k] = ScoreScale
    /\ \A j, k \in 1..Len(RawScores) :
         RawScores[j] <= RawScores[k] => FinalScores[j] <= FinalScores[k]
    /\ pc = "clean_done" => out_file = cleaned_data

\* Three clusters of three raw scores: -1, +1 and a score strictly between.
C5_Witness ==
  /\ pc = "clean_done"
  /\ Len(out_file) = 3 /\ Cardinality(Range(RawScores)) = 3
  /\ \E k \in 1..3 : /\ -ScoreScale < out_file[k].accessibility_score
                     /\ out_file[k].accessibility_score < ScoreScale

\* C6: with no surviving cluster the run does not fail.
C6_EmptyBatchDoesNotFail ==
  cleaned_data = << >> => pc # "error"

\* C8: the cleaned clusters are the records of radius_meters > 10, each once
\* and in input order, and the batch statistics are taken over the raw scores
\* of these records alone.
RadiusAbove(record) == record.radius_meters > MinRadius
Survivors == SelectSeq(data, RadiusAbove)

C8_FilterBeforeScoring ==
  /\ pc \notin { "clean_read", "clean_first_pass" } =>
       [ k \in 1..Len(cleaned_data) |-> cleaned_data[k].id ]
         = [ k \in 1..Len(Survivors) |-> Survivors[k].cluster_id ]
  /\ pc \notin { "clean_read", "clean_first_pass", "clean_stats" } =>
       /\ RawScores = [ k \in 1..Len(Survivors) |->
                        CleanCluster(g, Survivors[k]).accessibility_score ]
       /\ stats.mean_score = MeanScore(RawScores)
  /\ pc \in { "clean_min_max", "clean_normalize", "clean_save", "clean_done" } =>
       Len(z_scores) = Len(Survivors)
  /\ pc = "clean_done" =>
       [ k \in 1..Len(out_file) |-> out_file[k].id ]
         = [ k \in 1..Len(Survivors) |-> Survivors[k].cluster_id ]

\* Of three records the second has a radius of exactly 10 metres; the first
\* and the third are written, in this order.
C8_Witness ==
  /\ pc = "clean_done"
  /\ Len(data) = 3 /\ data[2].radius_meters = MinRadius
  /\ Len(out_file) = 2 /\ out_file[1].id = 1 /\ out_file[2].id = 3

\* ---- C11 (SpecGen)
\* A record of the facilities file that validation has to reject: a latitude
\* outside [-90, 90], a longitude outside [-180, 180], or a feature type
\* outside the twelve categories.
InvalidRecord(feature, item) ==
  \/ ~ LatitudeOk(item)
  \/ ~ LongitudeOk(item)
  \/ feature \notin KnownFeatures

HasInvalidRecord ==
  \E j \in 1..Len(data) : \E k \in 1..Len(data[j].elements) :
    InvalidRecord(data[j].feature, data[j].elements[k])

\* C11: for a file with an invalid record the run aborts: no graph is built
\* from it, so the record is no vertex, and no graph file is written.
C11_InvalidRecordsRejected ==
  HasInvalidRecord =>
    /\ g = NoGraph
    /\ graph_file = NoGraph
    /\ pc \notin { "gen_save", "gen_done" }

\* ---- C12 (SpecMetrics)
\* No path inside the member set S joins some two of its vertices.
Disconnected(gr, S) == \E u, v \in S : SubDistance(gr, S, u, v) = -1

NoConnectedPair(gr, S) ==
  \A u, v \in S : u # v => SubDistance(gr, S, u, v) = -1

====
